---- MODULE Spec2Model ----
(***************************************************************************)
(* The test runner of the autograding action (runner.ts): runAll iterates  *)
(* the tests, run() executes the setup command and then the main command   *)
(* of one test against a shared time budget, waitForExit races the child's *)
(* 'exit' and 'error' events against a timer, and the score is extracted   *)
(* from the main command's captured standard output.                       *)
(*                                                                         *)
(* JavaScript runs one callback at a time and drains the promise           *)
(* continuations (microtasks) of a callback before it dispatches the next  *)
(* event.  An event handler and the continuation of the await it settles   *)
(* are therefore one action here.  What the child processes do (write,     *)
(* fork, exit) is the operating system's and interleaves freely.           *)
(***************************************************************************)
EXTENDS Integers, Sequences, FiniteSets, TLC

(* ------------------------------ bounds -------------------------------- *)

\* Longest list of tests handed to runAll.
MaxTests == 2
\* Most chunks a child writes to its standard output.
MaxChunks == 1
\* Most clock steps that pass during one test.
MaxTicks == 2
\* Longest captured output, in tokens, the score extraction is tried on.
MaxBuffer == 6
\* Longest list of tests termination is checked for.
MaxLiveTests == 1

(* ----------------------------- JS values ------------------------------ *)

\* Numbers that may have a fractional part (scores, points) are kept in
\* tenths: Pt(1) is 1.0.  Sums of tenths are exact here; the IEEE rounding of
\* the JavaScript additions is below the resolution of the model.
Pt(n) == 10 * n

\* parseFloat's NaN (no score marker number can be negative).
NaN == -1
\* undefined: an optional field of Test that is absent.
Undefined == -2

Falsy(v) == v = Undefined \/ v = 0 \/ v = NaN

\* A comparison that takes undefined for 0.
LooseEq(a, b) ==
  /\ a # NaN
  /\ b # NaN
  /\ (IF a = Undefined THEN 0 ELSE a) = (IF b = Undefined THEN 0 ELSE b)

\* a === b on numbers and undefined.
StrictEq(a, b) == a # NaN /\ b # NaN /\ a = b

\* a + b on numbers.
Add(a, b) == IF a = NaN \/ b = NaN THEN NaN ELSE a + b

\* Math.floor in the place of Math.round.
MathFloor(a) == IF a = NaN THEN NaN ELSE Pt(a \div 10)

\* Math.round on a number in tenths: the nearest integer, halves upwards.
MathRound(a) == IF a = NaN THEN NaN ELSE Pt((a + 5) \div 10)

(* ------------------------------- time --------------------------------- *)

MsPerMinute == 60 * 1000
\* The resolution of the model's clock, in milliseconds.
Step == MsPerMinute \div 2

\* The conversion alone: test.timeout * 60 * 1000.
ResolveNoFallback(t) == IF t = Undefined THEN NaN ELSE t * MsPerMinute

\* The conversion with 30000 as its only fallback:
\* test.timeout * 60 * 1000 || 30000.
ResolveHalfMinute(t) == IF Falsy(t) THEN 30000 ELSE t * MsPerMinute

\* run, line 165: minutes to milliseconds, 1 minute when falsy.
ResolveTimeout(t) ==
  LET ms == (IF Falsy(t) THEN 1 ELSE t) * MsPerMinute
  IN  IF Falsy(ms) THEN 30000 ELSE ms

(* ---------------------------- score marker ---------------------------- *)

MARK == "[overall score: "
\* [\d\.], \d and \s over the tokens of the model.
NumChars == {"0", "1", "2", "5", "."}
Digits == {"0", "1", "2", "5"}
Spaces == {"\n", " "}
DigitVal(t) == CASE t = "0" -> 0 [] t = "1" -> 1 [] t = "2" -> 2 [] t = "5" -> 5

\* The chunks a child may write to its standard output, as token sequences.
Chunks ==
  { <<MARK, "1", "]", "\n">>,
    <<MARK, "1", ".", "5", "]">>,
    <<MARK, "]", "x">>,
    <<MARK, "]">> }

\* The length of the longest run of tokens of s from position i on that
\* are in the set S.
RECURSIVE RunLen(_, _, _)
RunLen(s, i, S) ==
  IF i > Len(s) \/ s[i] \notin S THEN 0 ELSE 1 + RunLen(s, i + 1, S)

RECURSIVE DigitsValue(_)
DigitsValue(s) ==
  IF s = <<>> THEN 0
  ELSE 10 * DigitsValue(SubSeq(s, 1, Len(s) - 1)) + DigitVal(s[Len(s)])

\* parseFloat on a string of digits and dots: the longest prefix
\* digits [. digits] that holds a digit; NaN when there is none.
\* The value is in tenths, so fractional digits after the first are dropped.
ParseFloat(s) ==
  LET ni   == RunLen(s, 1, Digits)
      dot  == ni < Len(s) /\ s[ni + 1] = "."
      nf   == IF dot THEN RunLen(s, ni + 2, Digits) ELSE 0
      int  == DigitsValue(SubSeq(s, 1, ni))
      frac == IF nf > 0 THEN DigitVal(s[ni + 2]) ELSE 0
  IN  IF ni = 0 /\ nf = 0 THEN NaN ELSE Pt(int) + frac

\* The pattern without its anchor: /\[overall score: ([\d\.]*)\]/.
MatchesAtUnanchored(s, i) ==
  /\ s[i] = MARK
  /\ LET n == RunLen(s, i + 1, NumChars)
         j == i + 1 + n
     IN  /\ j <= Len(s)
         /\ s[j] = "]"

\* /\[overall score: ([\d\.]*)\]\s*$/ matches at position i of s.
MatchesAt(s, i) ==
  /\ s[i] = MARK
  /\ LET n == RunLen(s, i + 1, NumChars)
         j == i + 1 + n
     IN  /\ j <= Len(s)
         /\ s[j] = "]"
         /\ j + RunLen(s, j + 1, Spaces) = Len(s)

\* runCommand, lines 155-160: regexp.exec(output) finds the leftmost match.
ExtractScore(s) ==
  LET hits == {i \in 1..Len(s) : MatchesAt(s, i)}
  IN  IF hits = {} THEN 0
      ELSE LET i == CHOOSE k \in hits : \A h \in hits : k <= h
           IN  ParseFloat(SubSeq(s, i + 1, i + RunLen(s, i + 1, NumChars)))

(* ------------------------------- state -------------------------------- *)

\* The (code, signal) of a process that ended; code is null when a signal
\* ended it and signal is "null" when it exited by itself.
Null == -3
ExitStatuses ==
  { [code |-> 0, signal |-> "null"],
    [code |-> 1, signal |-> "null"],
    [code |-> Null, signal |-> "SIGSEGV"] }
NoStatus == [code |-> Null, signal |-> "null"]
Killed == [code |-> Null, signal |-> "SIGTERM"]

\* The settlement of the promise waitForExit returns.
Pending == [kind |-> "pending", timeout |-> 0, code |-> Null, signal |-> "null"]
Resolved == [kind |-> "resolved", timeout |-> 0, code |-> Null, signal |-> "null"]
\* TestTimeoutError(`Setup timed out in ${timeout} milliseconds`)
TimeoutError(t) ==
  [kind |-> "timeout", timeout |-> t, code |-> Null, signal |-> "null"]
\* TestError(`Error: Exit with code: ${code} and signal: ${signal}`)
ProcessError(st) ==
  [kind |-> "process", timeout |-> 0, code |-> st.code, signal |-> st.signal]
\* The Error the 'error' event carries, passed on as it is.
SpawnError == [kind |-> "spawn", timeout |-> 0, code |-> Null, signal |-> "null"]

\* The children of test i: its setup command and its main command.
Kids == 1..(2 * MaxTests)
SetupKid(i) == 2 * i - 1
MainKid(i) == 2 * i
IsMain(c) == c % 2 = 0
TestOf(c) == (c + 1) \div 2

\* A child that was not launched (yet).
NoChild ==
  [ proc       |-> "none",    \* the process tree of the child:
                              \* none | running | exited | failed (no spawn)
    status     |-> NoStatus,
    blocked    |-> FALSE,     \* the command waits for the end of its stdin
    stdin      |-> "none",    \* none | open | closed
    fed        |-> "",        \* what was written to its standard input
    pipe       |-> <<>>,      \* chunks written to stdout, not yet read
    nchunks    |-> 0,
    errpipe    |-> <<>>,      \* chunks written to stderr, not yet read
    nerr       |-> 0,
    timer      |-> "none",    \* none | armed | fired | cleared
    timedOut   |-> FALSE,
    timeoutArg |-> 0,
    armedAt    |-> 0,
    promise    |-> Pending,
    kill       |-> "none",    \* none | issued | done
    order      |-> <<>> ]     \* the callbacks of waitForExit that ran, in order

\* What spawn() may give: a command that runs by itself, one that reads its
\* standard input to the end first, or no process at all (the 'error' event
\* follows).
Behaviours == {"runs", "reads", "fails"}

VARIABLES
  tests,            \* runAll's argument
  pc,               \* where runAll is: loop | setup | elapsed | main | done
  idx,              \* the index of the test the loop is at
  points,           \* runAll's points
  availablePoints,  \* runAll's availablePoints
  failed,           \* runAll's failed
  timeout,          \* run's timeout
  clock,            \* process.hrtime(start): milliseconds since run() began
  child,            \* the children, by Kids
  output,           \* runCommand's output
  written,          \* all the awaited main command wrote to its stdout
  started,          \* history: the tests run() was called for
  launched,         \* history: the children spawned
  results,          \* history: per test, how it ended and its score
  banner,           \* 'All tests passed' was logged
  summary,          \* <<points, availablePoints>> of the 'Points' output
  console           \* history: what the listeners of the command launched
                    \* last wrote to process.stdout and process.stderr

vars ==
  << tests, pc, idx, points, availablePoints, failed, timeout, clock, child,
     output, written, started, launched, results, banner, summary,
     console >>

runVars == <<idx, points, availablePoints, failed, results>>
histVars == <<started, launched, banner, summary, console>>

\* interface Test, lines 13-22, over the fields the runner reads: whether
\* test.setup is a non-empty command, test.input ('' stands for absent too),
\* test.timeout in minutes and test.points.  A payload is tried on the tests
\* that have no setup command.
TestSet ==
  [ setup   : BOOLEAN,
    input   : {""},
    timeout : {Undefined},
    points  : {Undefined, 0, Pt(1)} ]
  \cup
  [ setup   : {FALSE},
    input   : {"in"},
    timeout : {Undefined},
    points  : {Pt(1)} ]

TestLists == UNION { [1..n -> TestSet] : n \in 0..MaxTests }

\* Per test: how its setup ended (none | skipped | ok | failed), how the
\* test ended (none | ok | error) and the score run() returned.
NoResult == [setup |-> "none", st |-> "none", score |-> 0]

Init ==
  /\ tests \in TestLists
  /\ pc = "loop"
  /\ idx = 1
  /\ points = 0
  /\ availablePoints = 0
  /\ failed = FALSE
  /\ timeout = 0
  /\ clock = 0
  /\ child = [c \in Kids |-> NoChild]
  /\ output = <<>>
  /\ written = <<>>
  /\ started = <<>>
  /\ launched = <<>>
  /\ results = [i \in 1..Len(tests) |-> NoResult]
  /\ banner = FALSE
  /\ summary = <<>>
  /\ console = <<>>

(* ------------------------- the runner's pieces ------------------------ *)

\* indent, lines 56-60, on a chunk of tokens: two blanks follow every
\* newline.
Indent(ch) == [n \in 1..Len(ch) |-> IF ch[n] = "\n" THEN "\n  " ELSE ch[n]]

\* process.stdout.write(indent('\n')), lines 108 and 136.
NewLine == <<"out", Indent(<<"\n">>)>>

\* spawn(command, {cwd, shell, env}): a child with its three pipes open.
Spawn(b) ==
  [NoChild EXCEPT !.proc = IF b = "fails" THEN "failed" ELSE "running",
                  !.blocked = (b = "reads"),
                  !.stdin = "open"]

\* runCommand, lines 147-151: preload the inputs.
FeedInput(k, input) ==
  IF input # ""
  THEN [k EXCEPT !.fed = input, !.stdin = "closed", !.blocked = FALSE]
  ELSE k

\* waitForExit, lines 64-71 and 73, 84: the timer is armed and the 'exit'
\* and 'error' listeners are attached; now is the clock at that moment.
WaitForExit(k, t, now) ==
  [k EXCEPT !.timer = "armed", !.timeoutArg = t, !.armedAt = now,
            !.timedOut = FALSE, !.promise = Pending]

\* resolve() and reject() of a promise: only the first call settles it.
Settle(p, v) == IF p.kind = "pending" THEN v ELSE p

\* clearTimeout(exitTimeout)
ClearTimeout(t) == IF t = "armed" THEN "cleared" ELSE t

\* The timer's callback without the kill.
OnTimerNoKill(k) ==
  [k EXCEPT !.timedOut = TRUE,
            !.timer = "fired",
            !.promise = Settle(@, TimeoutError(k.timeoutArg)),
            !.order = Append(@, "timer")]

\* The timer's callback without the reject.
OnTimerNoReject(k) ==
  [k EXCEPT !.timedOut = TRUE,
            !.timer = "fired",
            !.kill = "issued",
            !.order = Append(@, "timer")]

\* waitForExit, lines 67-71: the timer's callback.
OnTimer(k) ==
  [k EXCEPT !.timedOut = TRUE,
            !.timer = "fired",
            !.promise = Settle(@, TimeoutError(k.timeoutArg)),
            !.kill = "issued",
            !.order = Append(@, "timer")]

\* The 'exit' listener without the test of the exit code.
OnExitAnyCode(k) ==
  IF k.timedOut THEN [k EXCEPT !.order = Append(@, "exit")]
  ELSE [k EXCEPT !.timer = ClearTimeout(@),
                 !.promise = Settle(@, Resolved),
                 !.order = Append(@, "exit")]

\* waitForExit, lines 73-82: the 'exit' listener.
OnExit(k) ==
  IF k.timedOut THEN [k EXCEPT !.order = Append(@, "exit")]
  ELSE [k EXCEPT !.timer = ClearTimeout(@),
                 !.promise = Settle(@, IF k.status.code = 0 THEN Resolved
                                       ELSE ProcessError(k.status)),
                 !.order = Append(@, "exit")]

\* waitForExit, lines 84-89: the 'error' listener.
OnError(k) ==
  IF k.timedOut THEN [k EXCEPT !.order = Append(@, "error")]
  ELSE [k EXCEPT !.timer = ClearTimeout(@),
                 !.promise = Settle(@, SpawnError),
                 !.order = Append(@, "error")]

\* tree-kill, called at line 70, once it has listed the tree and signalled
\* it: the child and its descendants end.
OnKill(k) ==
  [k EXCEPT !.proc = IF @ = "running" THEN "exited" ELSE @,
            !.status = IF k.proc = "running" THEN Killed ELSE @,
            !.kill = "done"]

\* process.hrtime(start), lines 166-170: [seconds, nanoseconds] for a clock
\* in milliseconds and the nanoseconds ns below the millisecond, and
\* Math.floor(elapsed[0] * 1000 + elapsed[1] / 1000000), where the first
\* summand is whole.
Hrtime(ms, ns) == <<ms \div 1000, (ms % 1000) * 1000000 + ns>>
\* The nanoseconds of the elapsed time alone.
ElapsedNanosOnly(e) == e[2] \div 1000000
ElapsedMs(e) == e[1] * 1000 + (e[2] \div 1000000)
SubMs == {0, 500000, 999999}

\* A child whose process is gone and for which no kill is under way cannot
\* act on the runner any more: its record is dropped when the runner
\* launches the next child.  Of a child that is still to be killed only the
\* process and the state of its waitForExit are followed from then on: what
\* it writes reaches nothing but the listeners of its own call.
Gone == [NoChild EXCEPT !.proc = "gone"]
Retirable(k) == k.proc \in {"exited", "failed"} /\ k.kill # "issued"
Linger(k) ==
  [k EXCEPT !.pipe = <<>>, !.nchunks = 0, !.errpipe = <<>>, !.nerr = 0,
            !.blocked = FALSE, !.stdin = "none", !.fed = "",
            !.status = NoStatus]
Retire(ch) ==
  [c \in Kids |->
     IF ch[c].proc = "none" THEN ch[c]
     ELSE IF Retirable(ch[c]) THEN Gone ELSE Linger(ch[c])]

\* The child whose waitForExit is awaited, 0 when none is.
Awaited ==
  IF pc = "setup" THEN SetupKid(idx)
  ELSE IF pc = "main" THEN MainKid(idx) ELSE 0

\* The command waits for the end of a standard input nobody closed.
Blocked(k) == k.blocked

(* ------------------------------ runAll -------------------------------- *)

\* runSetup without the await of waitForExit.
RunSetupNoAwait(test, t, live) ==
  IF test.setup
  THEN \E b \in Behaviours :
         /\ child' = [live EXCEPT ![SetupKid(idx)] = WaitForExit(Spawn(b), t, 0)]
         /\ launched' = Append(launched, SetupKid(idx))
         /\ console' = <<NewLine>>
         /\ results' = results
         /\ pc' = "elapsed"
  ELSE /\ child' = live
       /\ launched' = launched
       /\ console' = <<>>
       /\ results' = [results EXCEPT ![idx].setup = "skipped"]
       /\ pc' = "elapsed"

\* runSetup, lines 93-121, called with the budget t.
RunSetup(test, t, live) ==
  IF test.setup
  THEN \E b \in Behaviours :
         /\ child' = [live EXCEPT ![SetupKid(idx)] = WaitForExit(Spawn(b), t, 0)]
         /\ launched' = Append(launched, SetupKid(idx))
         /\ console' = <<NewLine>>
         /\ results' = results
         /\ pc' = "setup"
  ELSE /\ child' = live
       /\ launched' = launched
       /\ console' = <<>>
       /\ results' = [results EXCEPT ![idx].setup = "skipped"]
       /\ pc' = "elapsed"

\* runAll, lines 186-193, into run, lines 163-167: one iteration of the loop
\* up to the await of runSetup.
RunTest ==
  /\ pc = "loop"
  /\ idx <= Len(tests)
  /\ LET test == tests[idx]
         t == ResolveTimeout(test.timeout)
     IN  /\ availablePoints' =
              IF ~Falsy(test.points) THEN Add(availablePoints, test.points)
              ELSE availablePoints
         /\ started' = Append(started, idx)
         /\ timeout' = t
         /\ clock' = 0
         /\ RunSetup(test, t, Retire(child))
  /\ output' = <<>>
  /\ written' = <<>>
  /\ UNCHANGED <<tests, idx, points, failed, banner, summary>>

\* run, lines 168-171, into runCommand, lines 123-153: the remaining budget
\* and the launch of the main command, up to the await of waitForExit.
RunCommand ==
  /\ pc = "elapsed"
  /\ \E ns \in SubMs, b \in Behaviours :
       LET test == tests[idx]
           remaining == timeout - ElapsedMs(Hrtime(clock, ns))
       IN  /\ timeout' = remaining
           /\ child' = [Retire(child) EXCEPT ![MainKid(idx)] =
                WaitForExit(FeedInput(Spawn(b), test.input), remaining, clock)]
  /\ output' = <<>>
  /\ written' = <<>>
  /\ launched' = Append(launched, MainKid(idx))
  /\ console' = <<NewLine>>
  /\ pc' = "main"
  /\ UNCHANGED <<tests, runVars, clock, started, banner, summary>>

\* run returns after runSetup resolved: run goes on to the main command.
SetupDone ==
  /\ pc' = "elapsed"
  /\ results' = [results EXCEPT ![idx].setup = "ok"]
  /\ UNCHANGED <<idx, points, availablePoints, failed>>

\* runCommand, lines 155-160, and runAll, lines 194-203: the score of the
\* main command that resolved, and its accounting.
Scored ==
  LET score == ExtractScore(output)
  IN  /\ points' = Add(points, score)
      /\ failed' = (failed \/ ~StrictEq(score, tests[idx].points))
      /\ results' = [results EXCEPT ![idx].st = "ok", ![idx].score = score]
      /\ idx' = idx + 1
      /\ pc' = "loop"
      /\ UNCHANGED availablePoints

\* A catch that throws again: runAll ends there.
CaughtRethrows ==
  /\ failed' = TRUE
  /\ results' = [results EXCEPT ![idx].st = "error",
                                 ![idx].setup = IF pc = "setup" THEN "failed"
                                                ELSE @]
  /\ idx' = idx + 1
  /\ pc' = "done"
  /\ UNCHANGED <<points, availablePoints>>

\* runAll, lines 204-209: the catch of what setup or the main command threw.
Caught ==
  /\ failed' = TRUE
  /\ results' = [results EXCEPT ![idx].st = "error",
                                 ![idx].setup = IF pc = "setup" THEN "failed"
                                                ELSE @]
  /\ idx' = idx + 1
  /\ pc' = "loop"
  /\ UNCHANGED <<points, availablePoints>>

\* A callback of child c ran and left it as k; when that settled the awaited
\* promise, the awaiting code goes on before any other event is handled.
Dispatch(c, k) ==
  /\ child' = [child EXCEPT ![c] = k]
  /\ IF c = Awaited /\ child[c].promise.kind = "pending"
                    /\ k.promise.kind # "pending"
     THEN IF k.promise.kind # "resolved" THEN Caught
          ELSE IF pc = "setup" THEN SetupDone ELSE Scored
     ELSE UNCHANGED <<pc, runVars>>
  /\ UNCHANGED <<tests, timeout, clock, output, written, histVars>>

\* The end of the loop with the summary emitted for a total of 0 as well.
FinishNonNegative ==
  /\ pc = "loop"
  /\ idx > Len(tests)
  /\ banner' = ~failed
  /\ points' = MathRound(points)
  /\ summary' = IF points' >= 0 THEN <<points', availablePoints>> ELSE <<>>
  /\ child' = Retire(child)
  /\ pc' = "done"
  /\ UNCHANGED <<tests, idx, availablePoints, failed, timeout, clock, output,
                 written, started, launched, results, console>>

\* runAll, lines 212-233: the end of the loop.
Finish ==
  /\ pc = "loop"
  /\ idx > Len(tests)
  /\ banner' = ~failed
  /\ points' = MathRound(points)
  /\ summary' = IF points' > 0 THEN <<points', availablePoints>> ELSE <<>>
  /\ child' = Retire(child)
  /\ pc' = "done"
  /\ UNCHANGED <<tests, idx, availablePoints, failed, timeout, clock, output,
                 written, started, launched, results, console>>

(* --------------------------- the event loop --------------------------- *)

\* Callbacks run only while the runner awaits (or has returned).
Idle == pc \in {"setup", "main", "done"}

\* The timer of waitForExit fires, not before its delay has passed.  The
\* 'error' event of a failed spawn is emitted on the next tick, before any
\* timer can fire.
TimerFire(c) ==
  /\ Idle
  /\ child[c].timer = "armed"
  /\ child[c].proc # "failed"
  /\ clock - child[c].armedAt >= child[c].timeoutArg
  /\ Dispatch(c, OnTimer(child[c]))

\* The 'exit' event of a child that ended.
ExitEvent(c) ==
  /\ Idle
  /\ child[c].proc = "exited"
  /\ \A n \in 1..Len(child[c].order) : child[c].order[n] # "exit"
  /\ Dispatch(c, OnExit(child[c]))

\* The 'error' event of a child that could not be spawned.
ErrorEvent(c) ==
  /\ Idle
  /\ child[c].proc = "failed"
  /\ \A n \in 1..Len(child[c].order) : child[c].order[n] # "error"
  /\ Dispatch(c, OnError(child[c]))

\* tree-kill's own child processes ended and it signals the tree.
KillDone(c) ==
  /\ Idle
  /\ child[c].kill = "issued"
  /\ Dispatch(c, OnKill(child[c]))

\* A 'data' event of a child's stdout, lines 111-113 and 138-141: output
\* grows in the runCommand call that attached the listener.
StdoutData(c) ==
  /\ Idle
  /\ child[c].pipe # <<>>
  /\ child' = [child EXCEPT ![c].pipe = Tail(@)]
  /\ console' = Append(console, <<"out", Indent(Head(child[c].pipe))>>)
  /\ output' = IF c = Awaited /\ IsMain(c) THEN output \o Head(child[c].pipe)
               ELSE output
  /\ UNCHANGED <<tests, pc, runVars, timeout, clock, written, started,
                 launched, banner, summary>>

(* ----------------------------- the children --------------------------- *)

\* The awaited command writes a chunk to its standard output.
ChildWrite(c) ==
  /\ c = Awaited
  /\ child[c].proc = "running"
  /\ ~Blocked(child[c])
  /\ child[c].nchunks < MaxChunks
  /\ \E ch \in Chunks :
       /\ child' = [child EXCEPT ![c].pipe = Append(@, ch),
                                 ![c].nchunks = @ + 1]
       /\ written' = IF c = Awaited /\ IsMain(c) THEN written \o ch
                     ELSE written
  /\ UNCHANGED <<tests, pc, runVars, timeout, clock, output, histVars>>

\* The awaited command ends by itself.
ChildExit(c) ==
  /\ c = Awaited
  /\ child[c].proc = "running"
  /\ ~Blocked(child[c])
  /\ \E st \in ExitStatuses :
       child' = [child EXCEPT ![c].proc = "exited", ![c].status = st]
  /\ UNCHANGED <<tests, pc, runVars, timeout, clock, output, written, histVars>>

\* Time passes while the runner awaits a child.
Tick ==
  /\ pc \in {"setup", "main"}
  /\ clock < MaxTicks * Step
  /\ clock' = clock + Step
  /\ UNCHANGED <<tests, pc, runVars, timeout, child, output, written, histVars>>

Next ==
  \/ RunTest
  \/ RunCommand
  \/ Finish
  \/ Tick
  \/ \E c \in Kids : TimerFire(c)
  \/ \E c \in Kids : ExitEvent(c)
  \/ \E c \in Kids : ErrorEvent(c)
  \/ \E c \in Kids : KillDone(c)
  \/ \E c \in Kids : StdoutData(c)
  \/ \E c \in Kids : ChildWrite(c)
  \/ \E c \in Kids : ChildExit(c)

Spec == Init /\ [][Next]_vars

(* ------------------------------ scheduling ---------------------------- *)

\* What Node's event loop and the clock guarantee: the runner's own code
\* runs on, time passes while the runner waits, a timer that is armed and
\* due fires unless it is cleared first, and the 'exit' or 'error' event of
\* a child that ended or could not be spawned is emitted.  Nothing makes a
\* child write or end by itself, and nothing bounds tree-kill.
Fairness ==
  /\ WF_vars(RunTest)
  /\ WF_vars(RunCommand)
  /\ WF_vars(Finish)
  /\ WF_vars(Tick)
  /\ \A c \in Kids : WF_vars(TimerFire(c))
  /\ \A c \in Kids : WF_vars(ExitEvent(c))
  /\ \A c \in Kids : WF_vars(ErrorEvent(c))

LiveInit == Init /\ Len(tests) <= MaxLiveTests

LiveSpec == LiveInit /\ [][Next]_vars /\ Fairness

(* ----------------------- commands that write to stderr ---------------- *)

\* The chunks a child may write to its standard error.
ErrChunks == { <<MARK, "2", "]", "\n">>, <<"x">> }

\* The awaited command writes a chunk to its standard error.
ChildWriteErr(c) ==
  /\ c = Awaited
  /\ child[c].proc = "running"
  /\ ~Blocked(child[c])
  /\ child[c].nerr < MaxChunks
  /\ \E ch \in ErrChunks :
       child' = [child EXCEPT ![c].errpipe = Append(@, ch),
                              ![c].nerr = @ + 1]
  /\ UNCHANGED <<tests, pc, runVars, timeout, clock, output, written, histVars>>

\* A 'data' listener of stderr that adds the chunk to output as well.
StderrDataScored(c) ==
  /\ Idle
  /\ child[c].errpipe # <<>>
  /\ child' = [child EXCEPT ![c].errpipe = Tail(@)]
  /\ console' = Append(console, <<"err", Indent(Head(child[c].errpipe))>>)
  /\ output' = output \o Head(child[c].errpipe)
  /\ UNCHANGED <<tests, pc, runVars, timeout, clock, written, started,
                 launched, banner, summary>>

\* A 'data' event of a child's stderr, lines 116-118 and 143-145.
StderrData(c) ==
  /\ Idle
  /\ child[c].errpipe # <<>>
  /\ child' = [child EXCEPT ![c].errpipe = Tail(@)]
  /\ console' = Append(console, <<"err", Indent(Head(child[c].errpipe))>>)
  /\ UNCHANGED <<tests, pc, runVars, timeout, clock, output, written, started,
                 launched, banner, summary>>

\* runAll on one test whose commands write to both of their streams.  The
\* stderr listeners touch nothing but the console, so Spec leaves the
\* writes to stderr out.
IoInit == Init /\ Len(tests) = 1

IoNext ==
  \/ Next
  \/ \E c \in Kids : ChildWriteErr(c)
  \/ \E c \in Kids : StderrData(c)

IoSpec == IoInit /\ [][IoNext]_vars

(* ----------------- score extraction on any buffer --------------------- *)

\* The tokens a captured output is made of.
Alphabet == {MARK, "1", "2", ".", "]", "\n", "x"}

\* The captured outputs: every sequence of at most MaxBuffer tokens in which
\* no number has a second fractional digit (scores are kept in tenths).
Buffers ==
  { s \in UNION { [1..n -> Alphabet] : n \in 0..MaxBuffer } :
      \A i \in 1..(Len(s) - 2) :
        ~(s[i] = "." /\ s[i + 1] \in Digits /\ s[i + 2] \in Digits) }

\* The test whose main command's output is scored.
ScoredTest == [setup |-> FALSE, input |-> "", timeout |-> Undefined,
               points |-> Pt(1)]

\* runAll on one test without a setup command, at the await of line 153:
\* the main command has written its output, all of it was delivered to the
\* 'data' listener, and the command exited with code 0.
ScoreInit ==
  /\ tests = <<ScoredTest>>
  /\ pc = "main"
  /\ idx = 1
  /\ points = 0
  /\ availablePoints = Pt(1)
  /\ failed = FALSE
  /\ timeout = ResolveTimeout(Undefined)
  /\ clock = 0
  /\ child = [c \in Kids |->
       IF c = MainKid(1)
       THEN [WaitForExit(Spawn("runs"), ResolveTimeout(Undefined), 0)
               EXCEPT !.proc = "exited",
                      !.status = [code |-> 0, signal |-> "null"]]
       ELSE NoChild]
  /\ output \in Buffers
  /\ written = output
  /\ started = <<1>>
  /\ launched = <<MainKid(1)>>
  /\ results = <<[NoResult EXCEPT !.setup = "skipped"]>>
  /\ banner = FALSE
  /\ summary = <<>>
  /\ console = IF output = <<>> THEN <<NewLine>>
               ELSE <<NewLine, <<"out", Indent(output)>>>>

ScoreNext ==
  \/ ExitEvent(MainKid(1))
  \/ Finish

ScoreSpec == ScoreInit /\ [][ScoreNext]_vars

(* ------------------- one test with a configured timeout --------------- *)

\* test.timeout in minutes: absent, 0, 1 or 2.
Minutes == {Undefined, 0, 1, 2}

TimedTests ==
  [ setup   : BOOLEAN,
    input   : {""},
    timeout : Minutes,
    points  : {Pt(1)} ]

\* runAll on one test whose timeout is configured.
TimeInit ==
  /\ tests \in [1..1 -> TimedTests]
  /\ pc = "loop"
  /\ idx = 1
  /\ points = 0
  /\ availablePoints = 0
  /\ failed = FALSE
  /\ timeout = 0
  /\ clock = 0
  /\ child = [c \in Kids |-> NoChild]
  /\ output = <<>>
  /\ written = <<>>
  /\ started = <<>>
  /\ launched = <<>>
  /\ results = [i \in 1..Len(tests) |-> NoResult]
  /\ banner = FALSE
  /\ summary = <<>>
  /\ console = <<>>

TimeSpec == TimeInit /\ [][Next]_vars

(* ------------------------------ the claims ---------------------------- *)

Range(f) == {f[n] : n \in 1..Len(f)}
Min2(a, b) == IF a <= b THEN a ELSE b
Tests == 1..Len(tests)

\* C1: when the timer of a waitForExit call fires before the child's 'exit'
\* or 'error' event, the call is rejected with the timeout error that
\* carries the timeout the call was given, the kill of the child was
\* issued, the test is recorded as an error, and whatever event of the child
\* is handled afterwards leaves all of that as it is.
C1_TimeoutIsFinal ==
  \A c \in Kids :
    (child[c].order # <<>> /\ Head(child[c].order) = "timer") =>
      /\ child[c].timedOut
      /\ child[c].promise = TimeoutError(child[c].timeoutArg)
      /\ child[c].kill # "none"
      /\ results[TestOf(c)].st = "error"

\* The 'exit' event of a child was handled after its timer had fired.
C1_Witness ==
  \E c \in Kids :
    /\ child[c].order = <<"timer", "exit">>
    /\ child[c].promise.kind = "timeout"
    /\ child[c].timeoutArg = Step

\* C2: when the 'exit' or 'error' event of the child is handled before the
\* timer fires, the timer is cancelled and never fires, no kill is issued,
\* and the call succeeds for exit code 0, is rejected with the process error
\* of that code and signal for any other exit, and with the spawn error when
\* 'error' came first.
C2_ExitBeforeTimer ==
  \A c \in Kids :
    (child[c].order # <<>> /\ Head(child[c].order) \in {"exit", "error"}) =>
      /\ child[c].timer = "cleared"
      /\ ~child[c].timedOut
      /\ "timer" \notin Range(child[c].order)
      /\ child[c].kill = "none"
      /\ child[c].promise =
           IF Head(child[c].order) = "error" THEN SpawnError
           ELSE IF child[c].status.code = 0 THEN Resolved
           ELSE [kind |-> "process", timeout |-> 0,
                 code |-> child[c].status.code,
                 signal |-> child[c].status.signal]

\* A child ended by a signal of its own before the timer fired.
C2_Witness ==
  \E c \in Kids :
    /\ child[c].order = <<"exit">>
    /\ child[c].status.signal = "SIGSEGV"
    /\ child[c].promise.kind = "process"
    /\ clock = Step

\* C3: for a timeout above 0, once the call was rejected with the timeout
\* error and the caller went on, the child's process tree is not running.
C3_DeadAtReturn ==
  \A c \in Kids :
    (child[c].promise.kind = "timeout" /\ child[c].timeoutArg > 0) =>
      child[c].proc # "running"

\* C4: when the main command exited with code 0 before the timer fired, the
\* buffer the score was extracted from holds all the command wrote to its
\* standard output.
C4_AllOutputScored ==
  (pc = "loop" /\ idx > 1 /\ results[idx - 1].st = "ok") => output = written

\* C5: the standard input of the child the runner waits for is closed: after
\* the payload was written when there is one, at once when there is none.
C5_StdinClosed ==
  \A c \in Kids :
    c = Awaited =>
      /\ child[c].stdin = "closed"
      /\ (IsMain(c) => child[c].fed = tests[TestOf(c)].input)

\* C6: runAll calls run() for every test once and in the order of the list,
\* launches no command twice, and reaches its end whatever the tests did: a
\* test that failed does not keep the next one from being run.
C6_EveryTestOnce ==
  /\ started = [n \in 1..Len(started) |-> n]
  /\ Len(started) = (IF pc = "loop" THEN idx - 1 ELSE Min2(idx, Len(tests)))
  /\ \A m, n \in 1..Len(launched) : launched[m] = launched[n] => m = n
  /\ pc = "done" =>
       /\ Len(started) = Len(tests)
       /\ \A i \in Tests : results[i].st \in {"ok", "error"}

\* The first of two tests failed and the second one succeeded.
C6_Witness ==
  /\ pc = "done"
  /\ Len(tests) = 2
  /\ results[1].st = "error"
  /\ results[2].st = "ok"
  /\ results[2].score = Pt(1)

\* The sum of the scores of the tests up to n that ended without an error,
\* NaN when one of them is NaN, and the sum of the points they declare.
RECURSIVE ScoreSum(_)
ScoreSum(n) ==
  IF n = 0 THEN 0
  ELSE LET rest == ScoreSum(n - 1)
       IN  IF results[n].st # "ok" THEN rest
           ELSE IF rest = NaN \/ results[n].score = NaN THEN NaN
           ELSE rest + results[n].score

RECURSIVE DeclaredSum(_)
DeclaredSum(n) ==
  IF n = 0 THEN 0
  ELSE DeclaredSum(n - 1)
       + (IF tests[n].points = Undefined THEN 0 ELSE tests[n].points)

\* The integer nearest to a number of tenths, in tenths.
Nearest(a) ==
  IF a = NaN THEN NaN
  ELSE CHOOSE v \in {Pt(n) : n \in 0..(a \div 10 + 1)} :
         \A w \in {Pt(n) : n \in 0..(a \div 10 + 1)} :
           \/ (IF v >= a THEN v - a ELSE a - v) < (IF w >= a THEN w - a ELSE a - w)
           \/ (IF v >= a THEN v - a ELSE a - v) = (IF w >= a THEN w - a ELSE a - w)
              /\ v >= w

\* C7: at the end of runAll, points is the sum of the scores of the tests
\* whose setup and main command both ended without an error, rounded to the
\* nearest integer, and availablePoints is the sum of the points all the
\* tests declare, those that failed too, absent points counting 0.
C7_Totals ==
  pc = "done" =>
    /\ points = Nearest(ScoreSum(Len(tests)))
    /\ availablePoints = DeclaredSum(Len(tests))

\* A score of 1.5 was rounded to 2 and the test after it failed, with its
\* declared point counted as available.
C7_Witness ==
  /\ pc = "done"
  /\ Len(tests) = 2
  /\ results[1].st = "ok"
  /\ results[1].score = 15
  /\ results[2].st = "error"
  /\ tests[2].points = Pt(1)
  /\ points = Pt(2)
  /\ availablePoints >= Pt(1)

\* C8: at the end of runAll, failed is true exactly when some test raised an
\* error or gave a score that is not its declared points (a score of 0 for
\* a test that declares none too), and 'All tests passed' was logged exactly
\* when failed is false.
C8_FailedFlag ==
  pc = "done" =>
    /\ failed <=> \E i \in Tests :
                    \/ results[i].st = "error"
                    \/ results[i].score = NaN
                    \/ results[i].score # tests[i].points
    /\ banner <=> ~failed

\* A single test that declares no points scored 0 and set the flag.
C8_Witness ==
  /\ pc = "done"
  /\ Len(tests) = 1
  /\ tests[1].points = Undefined
  /\ results[1].st = "ok"
  /\ results[1].score = 0
  /\ failed
  /\ ~banner

\* C9: at most one child the runner launched is running at any moment.
C9_OneChildAtATime ==
  Cardinality({c \in Kids : child[c].proc = "running"}) <= 1

\* C10: the main command of a test is launched only when the test has no
\* setup command or its setup command exited with code 0; when the setup
\* command failed (by its exit, by the timeout or at its spawn) the main
\* command is never launched, run() returned no score and the test is
\* recorded as failed.
C10_SetupGatesMain ==
  \A i \in Tests :
    /\ MainKid(i) \in Range(launched) => results[i].setup \in {"skipped", "ok"}
    /\ results[i].setup = "skipped" => ~tests[i].setup
    /\ (results[i].setup = "ok" /\ pc = "elapsed" /\ idx = i) =>
         /\ child[SetupKid(i)].order = <<"exit">>
         /\ child[SetupKid(i)].status.code = 0
    /\ child[SetupKid(i)].promise.kind \in {"timeout", "process", "spawn"} =>
         results[i].setup = "failed"
    /\ results[i].setup = "failed" =>
         /\ MainKid(i) \notin Range(launched)
         /\ results[i].st = "error"
         /\ results[i].score = 0
         /\ failed

\* The setup command of the first test failed, and the second test ran
\* its main command after a setup command that exited with code 0.
C10_Witness ==
  /\ Len(tests) = 2
  /\ results[1].setup = "failed"
  /\ launched = <<SetupKid(1), SetupKid(2), MainKid(2)>>
  /\ results[2].setup = "ok"

(* Score extraction, checked under ScoreSpec. *)

\* The run of digits and dots that follows the MARK at position i of s.
NumberAt(s, i) == SubSeq(s, i + 1, i + RunLen(s, i + 1, NumChars))

\* r is written as a number: digits, with at most one dot among them.
IsNumber(r) ==
  LET d1 == RunLen(r, 1, Digits)
      d2 == IF d1 < Len(r) /\ r[d1 + 1] = "." THEN RunLen(r, d1 + 2, Digits)
            ELSE 0
  IN  /\ d1 + d2 >= 1
      /\ Len(r) = d1 + d2 + (IF d1 < Len(r) /\ r[d1 + 1] = "." THEN 1 ELSE 0)

\* The value of a number with at most one fractional digit, in tenths.
Decimal(r) ==
  LET dots == {n \in 1..Len(r) : r[n] = "."}
      dot  == IF dots = {} THEN Len(r) + 1 ELSE CHOOSE n \in dots : TRUE
  IN  10 * DigitsValue(SubSeq(r, 1, dot - 1))
      + (IF dot < Len(r) THEN DigitVal(r[dot + 1]) ELSE 0)

\* The positions of the markers '[overall score: <number>]' of s.
Markers(s) ==
  { i \in 1..Len(s) :
      /\ s[i] = MARK
      /\ IsNumber(NumberAt(s, i))
      /\ i + Len(NumberAt(s, i)) + 1 <= Len(s)
      /\ s[i + Len(NumberAt(s, i)) + 1] = "]" }

LastMarker(s) == CHOOSE i \in Markers(s) : \A h \in Markers(s) : h <= i

\* What follows the marker at position i of s.
After(s, i) == SubSeq(s, i + Len(NumberAt(s, i)) + 2, Len(s))

\* The main command of test 1 resolved and its output was scored.
WasScored == Len(tests) >= 1 /\ results[1].st = "ok"

\* C11: the score extracted from the captured output is 0 when the output
\* holds no marker '[overall score: <number>]', and when the last marker is
\* followed by nothing but whitespace it is that marker's number, whatever
\* the points of the test and whatever the markers before it.
C11_ScoreExtraction ==
  WasScored =>
    /\ Markers(output) = {} => results[1].score = 0
    /\ (/\ Markers(output) # {}
        /\ Range(After(output, LastMarker(output))) \subseteq Spaces)
       => results[1].score = Decimal(NumberAt(output, LastMarker(output)))

\* C12 as stated: a single marker in the middle of the output, followed by
\* text that is not whitespace, gives the marker's number as the score.
C12_MiddleMarkerMatches ==
  (/\ WasScored
   /\ Cardinality({i \in 1..Len(output) : output[i] = MARK}) = 1
   /\ Markers(output) # {}
   /\ ~(Range(After(output, LastMarker(output))) \subseteq Spaces))
  => results[1].score = Decimal(NumberAt(output, LastMarker(output)))

\* C12, amended: a single marker in the middle of the output, followed by
\* text that is not whitespace, does not match, and the score is 0.
C12_TrailingTextNoMatch ==
  (/\ WasScored
   /\ Cardinality({i \in 1..Len(output) : output[i] = MARK}) = 1
   /\ Markers(output) # {}
   /\ ~(Range(After(output, LastMarker(output))) \subseteq Spaces))
  => results[1].score = 0

\* The output '[overall score: 2]' followed by a newline and other text was
\* scored 0.
C12_Witness ==
  /\ WasScored
  /\ output = <<MARK, "2", "]", "\n", "x">>
  /\ results[1].score = 0
  /\ pc = "done"

\* C13: the summary 'Points <total>/<available>' is emitted at the end of
\* runAll and nowhere else, exactly when the rounded sum of the scores is
\* above 0, and it carries that rounded sum and the sum of the declared
\* points.
C13_PointsSummary ==
  /\ pc # "done" => summary = <<>>
  /\ pc = "done" =>
       LET total == Nearest(ScoreSum(Len(tests)))
       IN  /\ summary # <<>> <=> (total # NaN /\ total > 0)
           /\ summary # <<>> =>
                summary = <<total, DeclaredSum(Len(tests))>>

\* Two tests that declare 1 point each scored 1.5 and 1: 'Points 3/2'.
C13_Witness ==
  /\ pc = "done"
  /\ Len(tests) = 2
  /\ results[1].score = 15
  /\ results[2].score = Pt(1)
  /\ summary = <<Pt(3), Pt(2)>>

(* The time budget, checked under TimeSpec. *)

\* The budget of test i in milliseconds, as the claims state it.
Budget(i) ==
  IF tests[i].timeout \in {Undefined, 0} THEN 60000
  ELSE tests[i].timeout * 60000

C15_BudgetPositive ==
  /\ (pc \in {"setup", "elapsed"}) => timeout > 0
  /\ \A c \in Kids :
       (/\ child[c].timer # "none"
        /\ (IsMain(c) => ~tests[TestOf(c)].setup))
       => child[c].timeoutArg > 0

\* The setup timer of a test that configures the timeout 0 is armed.
C15_Witness ==
  /\ tests[1].timeout = 0
  /\ tests[1].setup
  /\ pc = "setup"
  /\ child[SetupKid(1)].timer = "armed"
  /\ child[SetupKid(1)].timeoutArg = 60000

\* C16: a timeout that is absent or 0 resolves to 60000 ms, any other
\* timeout of m minutes to m * 60000 ms.
C16_ResolvedTimeout ==
  /\ (pc \in {"setup", "elapsed"}) =>
       timeout = (IF tests[idx].timeout = Undefined \/ tests[idx].timeout = 0
                  THEN 60000 ELSE tests[idx].timeout * 60000)
  /\ \A i \in Tests :
       child[SetupKid(i)].timer # "none" =>
         child[SetupKid(i)].timeoutArg
           = (IF tests[i].timeout = Undefined \/ tests[i].timeout = 0
              THEN 60000 ELSE tests[i].timeout * 60000)

\* A test of 2 minutes waits for its setup command with 120000 ms.
C16_Witness ==
  /\ tests[1].timeout = 2
  /\ pc = "setup"
  /\ timeout = 120000
  /\ child[SetupKid(1)].timeoutArg = 120000

\* C17: a main command launched with a remaining timeout of 0 or less ends
\* in the timeout error and in nothing else: its call is never resolved and
\* never rejected with a process error or a spawn error.
C17_NoBudgetTimesOut ==
  \A c \in Kids :
    (IsMain(c) /\ child[c].timer # "none" /\ child[c].timeoutArg <= 0) =>
      child[c].promise.kind \in {"pending", "timeout"}

\* a >= b on numbers: false when either is NaN.
Geq(a, b) == a # NaN /\ b # NaN /\ a >= b

\* C18: in every step of runAll's loop, points and availablePoints are at
\* least what they were before the step, and failed stays true once it is.
C18_Monotone ==
  [][pc' # "done" =>
       /\ Geq(points', points)
       /\ Geq(availablePoints', availablePoints)
       /\ failed => failed']_vars

(* The streams of the commands, checked under IoSpec. *)

IsPrefix(a, b) == Len(a) <= Len(b) /\ a = SubSeq(b, 1, Len(a))

\* The chunks of the console entries of stream st, one after the other.
RECURSIVE StreamOf(_, _)
StreamOf(con, st) ==
  IF con = <<>> THEN <<>>
  ELSE StreamOf(SubSeq(con, 1, Len(con) - 1), st)
       \o (IF con[Len(con)][1] = st THEN con[Len(con)][2] ELSE <<>>)

\* C19: the buffer the score is extracted from holds standard output of the
\* main command and nothing else: it is empty while the setup command runs,
\* and what the commands write to standard error never reaches it.  Every
\* chunk a listener read went to the console, the standard output of the
\* main command as it is in the buffer (indented).
C19_OnlyMainStdoutScored ==
  /\ IsPrefix(output, written)
  /\ pc \in {"setup", "elapsed"} => output = <<>>
  /\ \A i \in Tests : results[i].st = "ok" /\ idx = i + 1 =>
       results[i].score = ExtractScore(output)
  /\ pc \in {"setup", "main"} =>
       /\ Len(console) = 1 + (child[Awaited].nchunks - Len(child[Awaited].pipe))
                           + (child[Awaited].nerr - Len(child[Awaited].errpipe))
       /\ Range(StreamOf(console, "err")) \subseteq {MARK, "2", "]", "\n  ", "x"}
  /\ pc = "main" => StreamOf(console, "out") = <<"\n  ">> \o Indent(output)

\* The main command wrote a marker to its standard error and a marker to its
\* standard output; both were forwarded and the score is that of the latter.
C19_Witness ==
  /\ pc = "done"
  /\ results[1].st = "ok"
  /\ results[1].score = Pt(1)
  /\ StreamOf(console, "err") = <<MARK, "2", "]", "\n  ">>
  /\ output = <<MARK, "1", "]", "\n">>

(* Termination, checked under LiveSpec. *)

\* C20: every call of waitForExit the runner awaits is settled in the end,
\* whatever the child does or fails to do, and runAll reaches the end of
\* its list of tests.
C20_Terminates ==
  /\ \A c \in Kids : (Awaited = c) ~> (Awaited # c)
  /\ <>(pc = "done")

\* runAll ended after a main command that waited for input nobody sent was
\* timed out.
C20_Witness ==
  /\ pc = "done"
  /\ Len(tests) = 1
  /\ child[MainKid(1)].order # <<>>
  /\ Head(child[MainKid(1)].order) = "timer"
  /\ child[MainKid(1)].promise.kind = "timeout"
  /\ results[1].st = "error"
====
